---- MODULE Spec2Model ----
(***************************************************************************)
(* View-state controller of the NBA statistics viewer                      *)
(* (frontend/src/App.tsx, frontend/src/Standings.tsx).                     *)
(*                                                                         *)
(* One action per event handler, timer callback or network callback.  An   *)
(* action covers the handler together with the render it causes and every  *)
(* effect (useEffect) that render runs, including the renders and effects   *)
(* that the effects' own state updates cause: React runs all of them        *)
(* before the next event is handled.                                        *)
(***************************************************************************)
EXTENDS Integers, Sequences, FiniteSets, TLC

(***************************************************************************)
(* Bounds of the model                                                     *)
(***************************************************************************)
\* leaderboard categories explored (a prefix of LEADER_SUBTABS)
NumCats == 2
\* the page limit is raised at most to MaxPages * PAGE_SIZE
MaxPages == 2
\* requests in flight per page: leaderboard fetches; search and game-log
\* fetches together
MaxInFlight == 2
\* players known to the search index
NumPlayers == 2
\* teams in a standings response
MaxTeams == 3

(***************************************************************************)
(* Program constants                                                       *)
(***************************************************************************)
PAGE_SIZE == 10
DEFAULT_LAST_N == 10
ALL_GAMES_N == 9999
TAB_SWAP_MS == 800
TAB_UNLOCK_MS == 800
DEBOUNCE_MS == 250

AppTab == {"home", "ai", "player", "leaders", "standings"}

LEADER_SUBTABS == <<"3pt", "fg", "pts", "reb", "ast", "blk">>

LeaderTab == {LEADER_SUBTABS[i] : i \in 1..NumCats}

IMPLEMENTED_ROUTES == [c \in LeaderTab |-> TRUE]

Status == {"idle", "loading", "ok", "error"}

\* pendingTabRef.current = null
NoTab == "none"

VARIABLES
  tab,                \* useState<AppTab>
  isTabTransitioning, \* useState(false)
  pendingTabRef,      \* useRef<AppTab | null>
  tabTimers,          \* pending window.setTimeout callbacks of requestTabChange
  leaderTab,
  leadersStatus,
  leaders,
  leadersLimit,
  canLoadMore,
  leadersReqs,        \* leaderboard fetches in flight, in issue order
  playerQuery,
  searchTimer,        \* the pending debounce timer and the query it closed over
  playerSearchStatus,
  playerResults,
  selectedPlayer,
  playerStatsStatus,
  playerStats,
  showAllGames,
  searchReqs,         \* search fetches in flight (typeahead and deep link)
  statsReqs,          \* game-log fetches in flight
  stStatus,           \* Standings: status
  teams,              \* Standings: teams
  stReqs,             \* standings fetches in flight
  failedSince,        \* history: the slots in which a fetch has failed since
                      \* the user last acted
  mounted             \* App is mounted

tabVars == <<tab, isTabTransitioning, pendingTabRef, tabTimers>>
leaderVars == <<leaderTab, leadersStatus, leaders, leadersLimit, canLoadMore, leadersReqs>>
searchVars == <<playerQuery, searchTimer, playerSearchStatus, playerResults, searchReqs>>
playerVars == <<selectedPlayer, playerStatsStatus, playerStats, showAllGames, statsReqs>>
standingsVars == <<stStatus, teams, stReqs>>
vars == <<tabVars, leaderVars, searchVars, playerVars, standingsVars, failedSince, mounted>>

\* a click or a keystroke on the mounted App: the failures before it are no
\* longer the latest event of their slot
UserActed == mounted /\ mounted' = mounted /\ failedSince' = {}

\* a fetch of the slot settles: a non-2xx answer and a rejected fetch are
\* failures
Settled(slot, kind) ==
  /\ failedSince' = IF kind = "ok" THEN failedSince ELSE failedSince \cup {slot}
  /\ mounted' = mounted

(***************************************************************************)
(* Values                                                                  *)
(***************************************************************************)
\* how a fetch can end: 2xx with the documented JSON payload; a non-2xx
\* status whose body is JSON without the payload's fields (the backend's
\* {"detail": ...}); a rejected fetch or a body that is not JSON
RespKinds == {"ok", "non2xx", "exception"}

\* the elements of s without the i-th
RemoveAt(s, i) == [j \in 1..(Len(s) - 1) |-> IF j < i THEN s[j] ELSE s[j + 1]]

(***************************************************************************)
(* Tab navigation: requestTabChange and its two timers                     *)
(***************************************************************************)
\* requestTabChange without its second early return
requestTabChangeNoLock(next) ==
  IF next = tab
    THEN UNCHANGED tabVars
    ELSE /\ pendingTabRef' = next
         /\ isTabTransitioning' = TRUE
         /\ tabTimers' = tabTimers \o <<"swap", "unlock">>
         /\ tab' = tab

\* requestTabChange recording the newest target while a transition runs
requestTabChangeOverwrite(next) ==
  IF next = tab
    THEN UNCHANGED tabVars
    ELSE IF isTabTransitioning
      THEN pendingTabRef' = next /\ UNCHANGED <<tab, isTabTransitioning, tabTimers>>
      ELSE /\ pendingTabRef' = next
           /\ isTabTransitioning' = TRUE
           /\ tabTimers' = tabTimers \o <<"swap", "unlock">>
           /\ tab' = tab

\* the unlock timer firing before the swap timer
TransitionTimersUnlockFirst == <<"unlock", "swap">>

\* App.tsx 675-683: the two timers one call registers, in the order they
\* fire: by delay, and for equal delays in the order of registration
TransitionTimers ==
  IF TAB_SWAP_MS <= TAB_UNLOCK_MS THEN <<"swap", "unlock">> ELSE <<"unlock", "swap">>

\* App.tsx 668-684.  tabTimers keeps the pending timers in firing order and
\* only its head can fire.
requestTabChange(next) ==
  IF next = tab \/ isTabTransitioning
    THEN UNCHANGED tabVars
    ELSE /\ pendingTabRef' = next
         /\ isTabTransitioning' = TRUE
         /\ tabTimers' = tabTimers \o TransitionTimers
         /\ tab' = tab

(***************************************************************************)
(* Leaderboard: effects and fetchLeaders                                   *)
(***************************************************************************)
LeadersReq(cat, limit) == [cat |-> cat, limit |-> limit]

\* the rows the backend returns: the top n players of a category
TopRows(cat, n) == [r \in 1..n |-> [player_id |-> r, cat |-> cat]]

\* row counts a response to a request with this limit may carry: full
\* pages, and pages that end after 7 rows
RowCounts(limit) == {n \in 0..limit : n % PAGE_SIZE \in {0, 7}}

\* the row counts of all responses
AllRowCounts == RowCounts(MaxPages * PAGE_SIZE)

\* App.tsx 715-729: the two reset-paging effects, for a render with state n
\* that follows a render with state o (records of tab, leaderTab, leadersLimit)
ResetsPaging(o, n) ==
  \/ n.leaderTab # o.leaderTab
  \/ n.tab # o.tab /\ n.tab = "leaders"

\* the re-fetch effect reading the limit of the render before
RefetchEffectStale(o, n) ==
  IF n.tab = "leaders" /\ (n.leaderTab # o.leaderTab \/ n.leadersLimit # o.leadersLimit \/ n.tab # o.tab)
       /\ IMPLEMENTED_ROUTES[n.leaderTab]
    THEN <<LeadersReq(n.leaderTab, o.leadersLimit)>>
    ELSE <<>>

\* App.tsx 880-883: the re-fetch effect of that render; fetchLeaders reads
\* leaderTab and leadersLimit of the render the effect belongs to
RefetchEffect(o, n) ==
  IF n.tab = "leaders" /\ (n.leaderTab # o.leaderTab \/ n.leadersLimit # o.leadersLimit \/ n.tab # o.tab)
       /\ IMPLEMENTED_ROUTES[n.leaderTab]
    THEN <<LeadersReq(n.leaderTab, n.leadersLimit)>>
    ELSE <<>>

\* the render caused by the reset effects' setLeadersLimit(10)
AfterReset(o, n) == IF ResetsPaging(o, n) THEN [n EXCEPT !.leadersLimit = PAGE_SIZE] ELSE n

\* all leaderboard fetches issued until the effects settle
IssuedLeaders(o, n) == RefetchEffect(o, n) \o RefetchEffect(n, AfterReset(o, n))

RenderState == [tab |-> tab, leaderTab |-> leaderTab, leadersLimit |-> leadersLimit]

\* the leaderboard slot after the render n (which follows the current one)
\* and its effects
LeadersEffects(n) ==
  LET issued == IssuedLeaders(RenderState, n) IN
  /\ Len(leadersReqs) + Len(issued) <= MaxInFlight
  /\ leaderTab' = n.leaderTab
  /\ leadersLimit' = AfterReset(RenderState, n).leadersLimit
  /\ canLoadMore' = IF ResetsPaging(RenderState, n) THEN TRUE ELSE canLoadMore
  /\ leadersReqs' = leadersReqs \o issued
  /\ leadersStatus' = IF issued # <<>> THEN "loading" ELSE leadersStatus
  /\ leaders' = leaders

\* the success branch comparing with > instead of >=
CommitLeadersStrict(list, limit) ==
  [leaders |-> list, canLoadMore |-> Len(list) > limit, leadersStatus |-> "ok"]

\* the success branch appending to the rows already shown
CommitLeadersAppend(list, limit) ==
  [leaders |-> leaders \o list, canLoadMore |-> Len(list) >= limit, leadersStatus |-> "ok"]

\* App.tsx 782-788: the success branch of fetchLeaders
CommitLeaders(list, limit) ==
  [leaders |-> list, canLoadMore |-> Len(list) >= limit, leadersStatus |-> "ok"]

(***************************************************************************)
(* Player search and player stats                                          *)
(***************************************************************************)
\* query texts are sequences of characters
RECURSIVE TrimLeft(_)
TrimLeft(s) == IF s # <<>> /\ Head(s) = " " THEN TrimLeft(Tail(s)) ELSE s

RECURSIVE TrimRight(_)
TrimRight(s) ==
  IF s # <<>> /\ s[Len(s)] = " " THEN TrimRight(SubSeq(s, 1, Len(s) - 1)) ELSE s

\* String.prototype.trim
Trim(s) == TrimRight(TrimLeft(s))

Players == 1..NumPlayers

Letters == <<"a", "b", "c", "d">>

PlayerName(p) == <<Letters[((p - 1) % Len(Letters)) + 1]>>

\* PlayerHit
Hit(p) == [nba_player_id |-> p, full_name |-> PlayerName(p)]

\* selectedPlayer = null
NoPlayer == [nba_player_id |-> 0, full_name |-> <<>>]

\* what the user types into the search box
TypedQueries == {<<>>, <<" ">>, <<"a">>}

RECURSIVE SeqOfSet(_)
SeqOfSet(S) ==
  IF S = {} THEN <<>>
  ELSE LET m == CHOOSE x \in S : \A y \in S : x <= y IN <<m>> \o SeqOfSet(S \ {m})

\* the hit lists a search response may carry, whatever the query
SearchResponses == {[i \in 1..Len(SeqOfSet(S)) |-> Hit(SeqOfSet(S)[i])] : S \in SUBSET Players}

\* playerStats: null, a PlayerLastNResponse, or the JSON body of a non-2xx answer
NoStats == [kind |-> "null"]

\* the PlayerLastNResponse to a request: averages and games are those of the
\* requested player over the requested window
StatsOf(req) ==
  [kind |-> "data", nba_player_id |-> req.nba_player_id, n |-> req.n,
   averages |-> req, games |-> req]

ErrBody == [kind |-> "errbody"]

\* search and game-log fetches in flight
PlayerInFlight == Len(searchReqs) + Len(statsReqs)

NoTimer == [pending |-> FALSE, q |-> <<>>]

\* the debounce effect without its cleanup: a pending timer is kept
DebounceEffectNoCancel(newQuery) ==
  IF searchTimer.pending THEN searchTimer
  ELSE IF newQuery # playerQuery THEN [pending |-> TRUE, q |-> newQuery] ELSE searchTimer

\* App.tsx 890-893: the debounce effect runs when playerQuery changed; its
\* cleanup clears the previous timer
DebounceEffect(newQuery) ==
  IF newQuery # playerQuery THEN [pending |-> TRUE, q |-> newQuery] ELSE searchTimer

\* a search request joins the requests in flight.  Two fields are history,
\* read by no handler: latest marks the request issued last, locked a deep
\* link issued while the tab machine was Transitioning
IssueSearch(reqs, kind, q, playerId) ==
  [i \in 1..Len(reqs) |-> [reqs[i] EXCEPT !.latest = FALSE]]
    \o <<[kind |-> kind, q |-> q, playerId |-> playerId, latest |-> TRUE,
          locked |-> kind = "deeplink" /\ isTabTransitioning]>>

\* App.tsx 799-815, up to the fetch
fetchPlayerSearch(q) ==
  LET trimmed == Trim(q) IN
  IF trimmed = <<>>
    THEN /\ playerResults' = <<>>
         /\ playerSearchStatus' = "idle"
         /\ searchReqs' = searchReqs
    ELSE /\ playerSearchStatus' = "loading"
         /\ PlayerInFlight < MaxInFlight
         /\ searchReqs' = IssueSearch(searchReqs, "typeahead", trimmed, 0)
         /\ playerResults' = playerResults

\* App.tsx 809-814: the callbacks of the typeahead fetch.  r.json() is read
\* whatever the status, so a non-2xx JSON body goes through the success
\* branch with data.players undefined
SearchCallback(kind, hits) ==
  CASE kind = "ok" -> [playerResults |-> hits, playerSearchStatus |-> "ok"]
    [] kind = "non2xx" -> [playerResults |-> <<>>, playerSearchStatus |-> "ok"]
    [] OTHER -> [playerResults |-> playerResults, playerSearchStatus |-> "error"]

\* App.tsx 821-823, up to the fetch
fetchPlayerLastN(nbaPlayerId, n) ==
  /\ PlayerInFlight < MaxInFlight
  /\ playerStatsStatus' = "loading"
  /\ statsReqs' = Append(statsReqs, [nba_player_id |-> nbaPlayerId, n |-> n])

\* the success branch committing the averages and keeping the games shown
StatsCallbackKeepGames(req, kind) ==
  CASE kind = "ok" ->
         [playerStats |->
            IF playerStats.kind = "data"
              THEN [StatsOf(req) EXCEPT !.games = playerStats.games]
              ELSE StatsOf(req),
          playerStatsStatus |-> "ok"]
    [] kind = "non2xx" -> [playerStats |-> ErrBody, playerStatsStatus |-> "ok"]
    [] OTHER -> [playerStats |-> playerStats, playerStatsStatus |-> "error"]

\* App.tsx 824-829: the callbacks of the game-log fetch
StatsCallback(req, kind) ==
  CASE kind = "ok" -> [playerStats |-> StatsOf(req), playerStatsStatus |-> "ok"]
    [] kind = "non2xx" -> [playerStats |-> ErrBody, playerStatsStatus |-> "ok"]
    [] OTHER -> [playerStats |-> playerStats, playerStatsStatus |-> "error"]

\* a hit that is another player with the name of player p
Namesake(p) == [nba_player_id |-> p + NumPlayers, full_name |-> PlayerName(p)]

\* a hit that is player p under a longer spelling of the name
Alias(p) == [nba_player_id |-> p, full_name |-> PlayerName(p) \o <<" ", "j", "r">>]

HitPool == {Hit(p) : p \in Players} \cup {Namesake(p) : p \in Players}
             \cup {Alias(p) : p \in Players}

\* the hit lists the search for a name may carry when the search index holds
\* duplicate and near-duplicate names: up to two hits in any order
FuzzResponses ==
  {<<>>} \cup {<<h>> : h \in HitPool} \cup {<<h, g>> : h \in HitPool, g \in HitPool}

\* the first hit with the name of the leaderboard row
FindByName(hits, playerId) ==
  LET idx == {i \in 1..Len(hits) : hits[i].full_name = PlayerName(playerId)} IN
  IF idx = {} THEN NoPlayer ELSE hits[CHOOSE i \in idx : \A j \in idx : i <= j]

\* App.tsx 852: (data.players ?? []).find((p) => p.nba_player_id === playerId)
FindExact(hits, playerId) ==
  LET idx == {i \in 1..Len(hits) : hits[i].nba_player_id = playerId} IN
  IF idx = {} THEN NoPlayer ELSE hits[CHOOSE i \in idx : \A j \in idx : i <= j]

(***************************************************************************)
(* Standings                                                               *)
(***************************************************************************)
\* a null playoff_rank or win_pct
Null == -1000

\* conference labels are sequences of characters; a null label and "" are
\* both <<>>, as every use reads (t.conference ?? "")
Team(id, conf, rank, pct) ==
  [team_id |-> id, conference |-> conf, playoff_rank |-> rank, win_pct |-> pct]

UpperLetters ==
  <<"A", "B", "C", "D", "E", "F", "G", "H", "I", "J", "K", "L", "M",
    "N", "O", "P", "Q", "R", "S", "T", "U", "V", "W", "X", "Y", "Z">>

LowerLetters ==
  <<"a", "b", "c", "d", "e", "f", "g", "h", "i", "j", "k", "l", "m",
    "n", "o", "p", "q", "r", "s", "t", "u", "v", "w", "x", "y", "z">>

\* the lower-case letter of every upper-case letter
LowerOf ==
  [c \in {UpperLetters[i] : i \in 1..Len(UpperLetters)} |->
     LowerLetters[CHOOSE i \in 1..Len(UpperLetters) : UpperLetters[i] = c]]

\* String.prototype.toLowerCase, character by character
LowerChar(c) == IF c \in DOMAIN LowerOf THEN LowerOf[c] ELSE c

toLowerCase(s) == [i \in 1..Len(s) |-> LowerChar(s[i])]

\* String.prototype.includes
includes(s, sub) ==
  \E i \in 1..(Len(s) - Len(sub) + 1) : SubSeq(s, i, i + Len(sub) - 1) = sub

\* collation order of the characters of lower-case labels
Alphabet == <<" ">> \o LowerLetters

AlphabetIndex ==
  [c \in {Alphabet[i] : i \in 1..Len(Alphabet)} |->
     CHOOSE i \in 1..Len(Alphabet) : Alphabet[i] = c]

CharOrd(c) == AlphabetIndex[c]

\* String.prototype.localeCompare on lower-case labels: negative, zero, positive
RECURSIVE localeCompare(_, _)
localeCompare(a, b) ==
  IF a = <<>> /\ b = <<>> THEN 0
  ELSE IF a = <<>> THEN -1
  ELSE IF b = <<>> THEN 1
  ELSE IF CharOrd(Head(a)) # CharOrd(Head(b)) THEN CharOrd(Head(a)) - CharOrd(Head(b))
  ELSE localeCompare(Tail(a), Tail(b))

\* the comparator with the win percentage ascending
CompareTeamsPctAscending(a, b) ==
  LET ca == toLowerCase(a.conference)
      cb == toLowerCase(b.conference)
      ra == IF a.playoff_rank = Null THEN 999 ELSE a.playoff_rank
      rb == IF b.playoff_rank = Null THEN 999 ELSE b.playoff_rank
      wa == IF a.win_pct = Null THEN -1 ELSE a.win_pct
      wb == IF b.win_pct = Null THEN -1 ELSE b.win_pct
  IN IF ca # cb THEN localeCompare(ca, cb)
     ELSE IF ra # rb THEN ra - rb
     ELSE wa - wb

\* Standings.tsx 50-62: the comparator of sortStandings
CompareTeams(a, b) ==
  LET ca == toLowerCase(a.conference)
      cb == toLowerCase(b.conference)
      ra == IF a.playoff_rank = Null THEN 999 ELSE a.playoff_rank
      rb == IF b.playoff_rank = Null THEN 999 ELSE b.playoff_rank
      wa == IF a.win_pct = Null THEN -1 ELSE a.win_pct
      wb == IF b.win_pct = Null THEN -1 ELSE b.win_pct
  IN IF ca # cb THEN localeCompare(ca, cb)
     ELSE IF ra # rb THEN ra - rb
     ELSE wb - wa

\* x put into the sorted sequence s behind every element that does not
\* compare greater than it (Array.prototype.sort is stable)
InsertTeam(s, x) ==
  LET before == {i \in 1..Len(s) : CompareTeams(s[i], x) <= 0}
      k == IF before = {} THEN 0 ELSE CHOOSE i \in before : \A j \in before : j <= i
  IN SubSeq(s, 1, k) \o <<x>> \o SubSeq(s, k + 1, Len(s))

RECURSIVE SortFrom(_, _)
SortFrom(sorted, rest) ==
  IF rest = <<>> THEN sorted ELSE SortFrom(InsertTeam(sorted, Head(rest)), Tail(rest))

\* Standings.tsx 49-63
sortStandings(ts) == SortFrom(<<>>, ts)

\* Standings.tsx 261-262
east(ts) == SelectSeq(ts, LAMBDA t : includes(toLowerCase(t.conference), <<"e", "a", "s", "t">>))

west(ts) == SelectSeq(ts, LAMBDA t : includes(toLowerCase(t.conference), <<"w", "e", "s", "t">>))

\* Standings.tsx 265
hasSplit(ts) == Len(east(ts)) > 0 \/ Len(west(ts)) > 0

\* the view rendering both lists whenever the fetch has not failed
StandingsViewAlwaysSplit ==
  IF stStatus = "error"
    THEN [kind |-> "error"]
    ELSE [kind |-> "split", east |-> east(teams), west |-> west(teams)]

\* Standings.tsx 267-317: what the view renders: the error message, the two
\* conference lists, or one table of all teams
StandingsView ==
  IF stStatus = "error"
    THEN [kind |-> "error"]
    ELSE IF hasSplit(teams)
      THEN [kind |-> "split", east |-> east(teams), west |-> west(teams)]
      ELSE [kind |-> "table", list |-> teams]

EasternConference ==
  <<"E", "a", "s", "t", "e", "r", "n", " ", "C", "o", "n", "f", "e", "r", "e", "n", "c", "e">>

WesternConference ==
  <<"W", "e", "s", "t", "e", "r", "n", " ", "C", "o", "n", "f", "e", "r", "e", "n", "c", "e">>

\* String.prototype.toUpperCase, character by character
toUpperCase(s) ==
  [i \in 1..Len(s) |->
     IF \E k \in 1..Len(LowerLetters) : LowerLetters[k] = s[i]
       THEN UpperLetters[CHOOSE k \in 1..Len(LowerLetters) : LowerLetters[k] = s[i]]
       ELSE s[i]]

\* teams of the two conferences, their labels in several letter cases; two
\* eastern teams share a playoff rank
ConferenceTeams ==
  { Team(1, EasternConference, 1, 600),
    Team(2, toUpperCase(EasternConference), 1, 700),
    Team(3, WesternConference, 2, 550),
    Team(4, toLowerCase(WesternConference), 1, 650) }

\* the lists of up to MaxTeams different conference teams, in any order
ConferenceLists ==
  UNION {{l \in [1..n -> ConferenceTeams] : \A i, j \in 1..n : i # j => l[i] # l[j]}
           : n \in 0..MaxTeams}

\* the team lists a standings response may carry
StandingsResponses ==
  { << Team(2, <<"W", "E", "S", "T">>, 1, 700),
       Team(3, <<"E", "a", "s", "t">>, 2, 600),
       Team(1, <<"e", "a", "s", "t">>, 1, 650) >>,
    << Team(5, <<>>, Null, 400), Team(4, <<>>, 3, Null) >>,
    << Team(6, <<"E", "a", "s", "t">>, 1, 600),
       Team(7, <<"C", "e", "n", "t", "r", "a", "l">>, 2, 500),
       Team(8, <<>>, 3, 450) >>,
    << Team(9, <<"E", "a", "s", "t", " ", "W", "e", "s", "t">>, 1, 600) >> }
  \cup ConferenceLists

\* Standings.tsx 240-245: the callbacks of the standings fetch
StandingsCallback(kind, list) ==
  CASE kind = "ok" -> [teams |-> sortStandings(list), stStatus |-> "ok"]
    [] kind = "non2xx" -> [teams |-> sortStandings(<<>>), stStatus |-> "ok"]
    [] OTHER -> [teams |-> teams, stStatus |-> "error"]

\* Standings is rendered while tab = "standings" (App.tsx 1370-1379): it
\* mounts with fresh state and fetches (Standings.tsx 231-255); on unmount
\* its state is discarded and answers to its requests set nothing
StandingsMount(newTab) ==
  IF newTab = "standings" /\ tab # "standings"
    THEN stStatus' = "loading" /\ teams' = <<>> /\ stReqs' = <<[season |-> "2025-26"]>>
    ELSE IF newTab # "standings" /\ tab = "standings"
      THEN stStatus' = "idle" /\ teams' = <<>> /\ stReqs' = <<>>
      ELSE UNCHANGED standingsVars

(***************************************************************************)
(* Initial state: App mounted on the home tab.  The mount effects have run: *)
(* the initial fetchLeaders (App.tsx 871-874) is in flight and the debounce *)
(* effect has armed its timer for the empty query (App.tsx 890-893).        *)
(***************************************************************************)
Init ==
  /\ tab = "home"
  /\ isTabTransitioning = FALSE
  /\ pendingTabRef = NoTab
  /\ tabTimers = <<>>
  /\ leaderTab = "3pt"
  /\ leadersStatus = "loading"
  /\ leaders = <<>>
  /\ leadersLimit = PAGE_SIZE
  /\ canLoadMore = TRUE
  /\ leadersReqs = <<LeadersReq("3pt", PAGE_SIZE)>>
  /\ playerQuery = <<>>
  /\ searchTimer = [pending |-> TRUE, q |-> <<>>]
  /\ playerSearchStatus = "idle"
  /\ playerResults = <<>>
  /\ searchReqs = <<>>
  /\ selectedPlayer = NoPlayer
  /\ playerStatsStatus = "idle"
  /\ playerStats = NoStats
  /\ showAllGames = FALSE
  /\ statsReqs = <<>>
  /\ stStatus = "idle"
  /\ teams = <<>>
  /\ stReqs = <<>>
  /\ failedSince = {}
  /\ mounted = TRUE

(***************************************************************************)
(* Tab navigation                                                          *)
(***************************************************************************)
\* App.tsx 1007-1030: a tab trigger; the triggers are disabled while
\* isTabTransitioning
TabClick(next) ==
  /\ ~isTabTransitioning
  /\ requestTabChange(next)
  /\ UNCHANGED <<leaderVars, searchVars, playerVars, standingsVars>>
  /\ UserActed

\* App.tsx 675-678: the swap timer, with the effects of the render that
\* setTab causes (App.tsx 724-729, 880-883) and the mount or unmount of
\* Standings (App.tsx 1370-1379)
TabSwap ==
  /\ tabTimers # <<>> /\ Head(tabTimers) = "swap"
  /\ LET target == pendingTabRef
         newTab == IF target # NoTab THEN target ELSE tab
     IN IF mounted
          THEN /\ tab' = newTab
               /\ LeadersEffects([RenderState EXCEPT !.tab = newTab])
               /\ StandingsMount(newTab)
          ELSE UNCHANGED <<tab, leaderVars, standingsVars>>
  /\ tabTimers' = Tail(tabTimers)
  /\ UNCHANGED <<isTabTransitioning, pendingTabRef, searchVars, playerVars>>
  /\ UNCHANGED <<failedSince, mounted>>

\* the unlock timer leaving the pending slot filled
TabUnlockKeepPending ==
  /\ tabTimers # <<>> /\ Head(tabTimers) = "unlock"
  /\ isTabTransitioning' = FALSE
  /\ tabTimers' = Tail(tabTimers)
  /\ UNCHANGED <<tab, pendingTabRef, leaderVars, searchVars, playerVars, standingsVars>>
  /\ UNCHANGED <<failedSince, mounted>>

\* App.tsx 680-683: the unlock timer
TabUnlock ==
  /\ tabTimers # <<>> /\ Head(tabTimers) = "unlock"
  /\ pendingTabRef' = NoTab
  /\ isTabTransitioning' = IF mounted THEN FALSE ELSE isTabTransitioning
  /\ tabTimers' = Tail(tabTimers)
  /\ UNCHANGED <<tab, leaderVars, searchVars, playerVars, standingsVars>>
  /\ UNCHANGED <<failedSince, mounted>>

\* App is unmounted.  The cleanup of the debounce effect clears its timer
\* (App.tsx 892); the timers of requestTabChange have no cleanup and stay
\* registered.  React ignores the state updates of an unmounted component,
\* so the fetches in flight no longer have an effect and leave the model.
Unmount ==
  /\ mounted
  /\ mounted' = FALSE
  /\ searchTimer' = NoTimer
  /\ leadersReqs' = <<>>
  /\ searchReqs' = <<>>
  /\ statsReqs' = <<>>
  /\ stReqs' = <<>>
  /\ UNCHANGED <<tabVars, leaderTab, leadersStatus, leaders, leadersLimit, canLoadMore>>
  /\ UNCHANGED <<playerQuery, playerSearchStatus, playerResults>>
  /\ UNCHANGED <<selectedPlayer, playerStatsStatus, playerStats, showAllGames>>
  /\ UNCHANGED <<stStatus, teams, failedSince>>

(***************************************************************************)
(* Leaderboard                                                             *)
(***************************************************************************)
\* App.tsx 1265: a category trigger of the leaders page
SetLeaderTab(v) ==
  /\ tab = "leaders"
  /\ v # leaderTab
  /\ LeadersEffects([RenderState EXCEPT !.leaderTab = v])
  /\ UNCHANGED <<tabVars, searchVars, playerVars, standingsVars>>
  /\ UserActed

\* App.tsx 1348-1358: the button is rendered while leadersStatus is "ok"
\* and disabled while canLoadMore is false
LoadMoreEnabled == tab = "leaders" /\ leadersStatus = "ok" /\ canLoadMore

LoadMore ==
  /\ LoadMoreEnabled
  /\ leadersLimit + PAGE_SIZE <= MaxPages * PAGE_SIZE
  /\ LeadersEffects([RenderState EXCEPT !.leadersLimit = leadersLimit + PAGE_SIZE])
  /\ UNCHANGED <<tabVars, searchVars, playerVars, standingsVars>>
  /\ UserActed

\* a fetch that is issued again when it fails
LeadersResponseRetry(i, kind, n) ==
  /\ i \in 1..Len(leadersReqs)
  /\ leadersReqs' = IF kind = "ok" THEN RemoveAt(leadersReqs, i)
                                   ELSE Append(RemoveAt(leadersReqs, i), leadersReqs[i])
  /\ LET req == leadersReqs[i]
         got == CommitLeaders(TopRows(req.cat, n), req.limit)
     IN /\ IF kind = "ok"
             THEN /\ n <= req.limit
                  /\ leadersStatus' = got.leadersStatus
                  /\ canLoadMore' = got.canLoadMore
                  /\ leaders' = got.leaders
             ELSE /\ n = 0
                  /\ leadersStatus' = "error"
                  /\ UNCHANGED <<leaders, canLoadMore>>
  /\ UNCHANGED <<leaderTab, leadersLimit, tabVars, searchVars, playerVars, standingsVars>>
  /\ Settled("leaders", kind)

\* App.tsx 778-791: the fetch of request i settles
LeadersResponse(i, kind, n) ==
  /\ i \in 1..Len(leadersReqs)
  /\ leadersReqs' = RemoveAt(leadersReqs, i)
  /\ LET req == leadersReqs[i]
         got == CommitLeaders(TopRows(req.cat, n), req.limit)
     IN /\ IF kind = "ok"
             THEN /\ n <= req.limit
                  /\ leadersStatus' = got.leadersStatus
                  /\ canLoadMore' = got.canLoadMore
                  /\ leaders' = got.leaders
             ELSE /\ n = 0
                  /\ leadersStatus' = "error"
                  /\ UNCHANGED <<leaders, canLoadMore>>
  /\ UNCHANGED <<leaderTab, leadersLimit, tabVars, searchVars, playerVars, standingsVars>>
  /\ Settled("leaders", kind)

(***************************************************************************)
(* Player search, selection and deep link                                  *)
(***************************************************************************)
\* App.tsx 1049-1054: the search input of the player page
TypeQuery(q) ==
  /\ tab = "player"
  /\ q # playerQuery
  /\ playerQuery' = q
  /\ searchTimer' = DebounceEffect(q)
  /\ UNCHANGED <<playerSearchStatus, playerResults, searchReqs>>
  /\ UNCHANGED <<tabVars, leaderVars, playerVars, standingsVars>>
  /\ UserActed

\* App.tsx 891: the debounce timer fires
DebounceFire ==
  /\ searchTimer.pending
  /\ fetchPlayerSearch(searchTimer.q)
  /\ searchTimer' = NoTimer
  /\ UNCHANGED <<playerQuery, tabVars, leaderVars, playerVars, standingsVars>>
  /\ UNCHANGED <<failedSince, mounted>>

\* the callbacks of the deep link's search fetch reporting a search without
\* a match as an error
DeepLinkResponseStrict(req, kind, hits) ==
  LET exact == IF kind = "ok" THEN FindExact(hits, req.playerId) ELSE NoPlayer IN
  IF kind = "exception"
    THEN /\ playerSearchStatus' = "error"
         /\ UNCHANGED <<playerQuery, searchTimer, playerResults, playerVars>>
    ELSE IF exact # NoPlayer
      THEN /\ selectedPlayer' = exact
           /\ playerQuery' = <<>>
           /\ searchTimer' = DebounceEffect(<<>>)
           /\ playerResults' = <<>>
           /\ fetchPlayerLastN(exact.nba_player_id, DEFAULT_LAST_N)
           /\ playerSearchStatus' = "ok"
           /\ UNCHANGED <<playerStats, showAllGames>>
      ELSE /\ playerSearchStatus' = "error"
           /\ UNCHANGED <<playerQuery, searchTimer, playerResults, playerVars>>

\* App.tsx 850-866: the callbacks of the deep link's search fetch
DeepLinkResponse(req, kind, hits) ==
  LET exact == IF kind = "ok" THEN FindExact(hits, req.playerId) ELSE NoPlayer IN
  IF kind = "exception"
    THEN /\ playerSearchStatus' = "error"
         /\ UNCHANGED <<playerQuery, searchTimer, playerResults, playerVars>>
    ELSE IF exact # NoPlayer
      THEN /\ selectedPlayer' = exact
           /\ playerQuery' = <<>>
           /\ searchTimer' = DebounceEffect(<<>>)
           /\ playerResults' = <<>>
           /\ fetchPlayerLastN(exact.nba_player_id, DEFAULT_LAST_N)
           /\ playerSearchStatus' = "ok"
           /\ UNCHANGED <<playerStats, showAllGames>>
      ELSE /\ playerSearchStatus' = "ok"
           /\ UNCHANGED <<playerQuery, searchTimer, playerResults, playerVars>>

\* the fetch of search request i settles
SearchResponse(i, kind, hits) ==
  /\ i \in 1..Len(searchReqs)
  /\ kind = "ok" \/ hits = <<>>
  /\ LET req == searchReqs[i] IN
       /\ IF req.kind = "typeahead"
            THEN /\ playerResults' = SearchCallback(kind, hits).playerResults
                 /\ playerSearchStatus' = SearchCallback(kind, hits).playerSearchStatus
                 /\ UNCHANGED <<playerQuery, searchTimer, playerVars>>
            ELSE DeepLinkResponse(req, kind, hits)
  /\ searchReqs' = RemoveAt(searchReqs, i)
  /\ UNCHANGED <<tabVars, leaderVars, standingsVars>>
  /\ Settled("search", kind)

\* App.tsx 1092-1101: a card of the search results
SelectHit(i) ==
  /\ tab = "player"
  /\ i \in 1..Len(playerResults)
  /\ selectedPlayer' = playerResults[i]
  /\ showAllGames' = FALSE
  /\ playerQuery' = <<>>
  /\ searchTimer' = DebounceEffect(<<>>)
  /\ playerResults' = <<>>
  /\ fetchPlayerLastN(playerResults[i].nba_player_id, DEFAULT_LAST_N)
  /\ UNCHANGED <<playerStats, playerSearchStatus, searchReqs>>
  /\ UNCHANGED <<tabVars, leaderVars, standingsVars>>
  /\ UserActed

\* App.tsx 1058-1068: the "Show All Games" / "Show Last 10" button
ToggleShowAll ==
  /\ tab = "player"
  /\ selectedPlayer # NoPlayer
  /\ showAllGames' = ~showAllGames
  /\ fetchPlayerLastN(selectedPlayer.nba_player_id,
                      IF ~showAllGames THEN ALL_GAMES_N ELSE DEFAULT_LAST_N)
  /\ UNCHANGED <<selectedPlayer, playerStats>>
  /\ UNCHANGED <<tabVars, leaderVars, searchVars, standingsVars>>
  /\ UserActed

\* App.tsx 1070-1083: the Clear button
ClearSelection ==
  /\ tab = "player"
  /\ selectedPlayer # NoPlayer
  /\ selectedPlayer' = NoPlayer
  /\ playerStats' = NoStats
  /\ showAllGames' = FALSE
  /\ playerQuery' = <<>>
  /\ searchTimer' = DebounceEffect(<<>>)
  /\ playerResults' = <<>>
  /\ UNCHANGED <<playerStatsStatus, statsReqs, playerSearchStatus, searchReqs>>
  /\ UNCHANGED <<tabVars, leaderVars, standingsVars>>
  /\ UserActed

\* the fetch of game-log request i settles
StatsResponse(i, kind) ==
  /\ i \in 1..Len(statsReqs)
  /\ playerStats' = StatsCallback(statsReqs[i], kind).playerStats
  /\ playerStatsStatus' = StatsCallback(statsReqs[i], kind).playerStatsStatus
  /\ statsReqs' = RemoveAt(statsReqs, i)
  /\ UNCHANGED <<selectedPlayer, showAllGames>>
  /\ UNCHANGED <<tabVars, leaderVars, searchVars, standingsVars>>
  /\ Settled("stats", kind)

\* App.tsx 836-849 and 1289-1298: a row of the leaderboard, rendered while
\* leadersStatus is not "loading"
JumpToPlayer(i) ==
  /\ tab = "leaders"
  /\ leadersStatus # "loading"
  /\ i \in 1..Len(leaders)
  /\ leaders[i].player_id \in Players
  /\ LET playerId == leaders[i].player_id
         playerName == PlayerName(leaders[i].player_id)
     IN /\ requestTabChange("player")
        /\ selectedPlayer' = NoPlayer
        /\ playerStats' = NoStats
        /\ showAllGames' = FALSE
        /\ playerQuery' = playerName
        /\ searchTimer' = DebounceEffect(playerName)
        /\ playerSearchStatus' = "loading"
        /\ PlayerInFlight < MaxInFlight
        /\ searchReqs' = IssueSearch(searchReqs, "deeplink", playerName, playerId)
  /\ UNCHANGED <<playerResults, playerStatsStatus, statsReqs, leaderVars, standingsVars>>
  /\ UserActed

(***************************************************************************)
(* Standings                                                               *)
(***************************************************************************)
\* Standings.tsx 240-245: the standings fetch of the mounted view settles
StandingsResponse(kind, list) ==
  /\ stReqs # <<>>
  /\ kind = "ok" \/ list = <<>>
  /\ teams' = StandingsCallback(kind, list).teams
  /\ stStatus' = StandingsCallback(kind, list).stStatus
  /\ stReqs' = Tail(stReqs)
  /\ UNCHANGED <<tabVars, leaderVars, searchVars, playerVars>>
  /\ Settled("standings", kind)

(***************************************************************************)
(* Specifications.  Spec is the whole application.  The state slots meet   *)
(* only in the tab machine, so each page is also explored on its own, with *)
(* the navigation that reaches it and a user who leaves the other pages'    *)
(* controls alone.                                                          *)
(***************************************************************************)
NextNav ==
  \/ \E next \in AppTab : TabClick(next)
  \/ TabSwap
  \/ TabUnlock

NextLeaders ==
  \/ \E v \in LeaderTab : SetLeaderTab(v)
  \/ LoadMore
  \/ \E i \in 1..MaxInFlight, kind \in RespKinds, n \in AllRowCounts :
       LeadersResponse(i, kind, n)

\* the leaderboard fetches are answered with a full first page
NextLeadersLoaded == \E i \in 1..MaxInFlight : LeadersResponse(i, "ok", PAGE_SIZE)

NextSearch ==
  \/ \E q \in TypedQueries : TypeQuery(q)
  \/ DebounceFire
  \/ \E i \in 1..MaxInFlight, kind \in RespKinds, hits \in SearchResponses :
       SearchResponse(i, kind, hits)

NextSelect ==
  \/ \E i \in 1..NumPlayers : SelectHit(i)
  \/ ToggleShowAll
  \/ ClearSelection
  \/ \E i \in 1..MaxInFlight, kind \in RespKinds : StatsResponse(i, kind)

NextDeepLink ==
  \/ \E i \in 1..NumPlayers : JumpToPlayer(i)
  \/ \E i \in 1..MaxInFlight, kind \in RespKinds, hits \in SearchResponses :
       SearchResponse(i, kind, hits)
  \/ ToggleShowAll
  \/ ClearSelection
  \/ \E i \in 1..MaxInFlight, kind \in RespKinds : StatsResponse(i, kind)

NextStandings ==
  \E kind \in RespKinds, list \in StandingsResponses : StandingsResponse(kind, list)

Next ==
  NextNav \/ NextLeaders \/ NextSearch \/ NextSelect \/ NextDeepLink \/ NextStandings \/ Unmount

Spec == Init /\ [][Next]_vars

\* the way between the home tab and the leaderboard page
NextToLeaders ==
  \/ \E next \in {"home", "leaders"} : TabClick(next)
  \/ TabSwap
  \/ TabUnlock

\* the leaderboard page
SpecLeaders == Init /\ [][NextToLeaders \/ NextLeaders]_vars

\* the player page: typeahead search
SpecSearch == Init /\ [][NextNav \/ NextSearch]_vars

\* the way from the home tab to the player page
NextToPlayer ==
  \/ TabClick("player")
  \/ TabSwap
  \/ TabUnlock

\* the player page: typeahead search and direct selection
SpecSelect == Init /\ [][NextToPlayer \/ NextSearch \/ NextSelect]_vars

\* the deep link from a loaded leaderboard to the player page
SpecDeepLink == Init /\ [][NextNav \/ NextLeadersLoaded \/ NextDeepLink]_vars

\* clicks on leaderboard rows whose searches find nobody
NextRowClick ==
  \/ \E i \in 1..NumPlayers : JumpToPlayer(i)
  \/ \E i \in 1..MaxInFlight, kind \in RespKinds : SearchResponse(i, kind, <<>>)

\* the tab machine under tab clicks and row clicks, with timers that fire: a
\* registered window.setTimeout callback runs once its delay has passed.
\* The leaderboard fetches are answered, so that the bound MaxInFlight on
\* the fetches in flight never holds up the swap timer, which the program
\* lets fire whatever is in flight.
SpecTabsFair ==
  /\ Init /\ [][NextNav \/ NextLeadersLoaded \/ NextRowClick]_vars
  /\ WF_vars(TabSwap) /\ WF_vars(TabUnlock) /\ WF_vars(NextLeadersLoaded)

\* the deep link answered by a search index with duplicate names
NextDeepLinkFuzz ==
  \/ \E i \in 1..NumPlayers : JumpToPlayer(i)
  \/ \E i \in 1..MaxInFlight, kind \in RespKinds, hits \in FuzzResponses :
       SearchResponse(i, kind, hits)
  \/ \E i \in 1..MaxInFlight, kind \in RespKinds : StatsResponse(i, kind)

SpecDeepLinkFuzz == Init /\ [][NextNav \/ NextLeadersLoaded \/ NextDeepLinkFuzz]_vars

\* the way between the leaderboard page and the player page
NextLeadersPlayer ==
  \/ \E next \in {"leaders", "player"} : TabClick(next)
  \/ TabSwap
  \/ TabUnlock

\* the two sources of search requests: the search box and the deep link
NextQuery ==
  \/ NextSearch
  \/ \E i \in 1..NumPlayers : JumpToPlayer(i)
  \/ \E i \in 1..MaxInFlight, kind \in RespKinds : StatsResponse(i, kind)

SpecQuery == Init /\ [][NextLeadersPlayer \/ NextLeadersLoaded \/ NextQuery]_vars

\* the way between the three pages that fetch on entry or on a click
NextPages ==
  \/ \E next \in {"leaders", "player", "standings"} : TabClick(next)
  \/ TabSwap
  \/ TabUnlock

\* the four fetch slots together: each fetch is answered in issue order, with
\* a full page, the one matching hit or a failure; the player page is
\* entered through the deep link
NextRetry ==
  \/ \E v \in LeaderTab : SetLeaderTab(v)
  \/ LoadMore
  \/ \E kind \in RespKinds :
       LeadersResponse(1, kind, IF kind = "ok" THEN PAGE_SIZE ELSE 0)
  \/ DebounceFire
  \/ \E kind \in RespKinds :
       SearchResponse(1, kind, IF kind = "ok" THEN <<Hit(1)>> ELSE <<>>)
  \/ ToggleShowAll
  \/ \E kind \in RespKinds : StatsResponse(1, kind)
  \/ JumpToPlayer(1)
  \/ \E kind \in RespKinds : StandingsResponse(kind, <<>>)

SpecRetry == Init /\ [][NextPages \/ NextRetry]_vars

\* the tab machine and the search box of an App that may be unmounted
SpecUnmount == Init /\ [][NextNav \/ NextSearch \/ Unmount]_vars

\* the standings page
SpecStandings == Init /\ [][NextNav \/ NextStandings]_vars

(***************************************************************************)
(* Claims                                                                  *)
(***************************************************************************)

\* C1: whenever player stats are populated, a player is selected and the
\* stats are those of the selected player.
C1_StatsBelongToSelected ==
  playerStats.kind = "data" =>
    /\ selectedPlayer # NoPlayer
    /\ playerStats.nba_player_id = selectedPlayer.nba_player_id

\* C2: the response to a typeahead request that is no longer the most
\* recently issued search request is not committed to the results once the
\* most recent request has been answered (an earlier response never
\* overwrites the later one's results).
C2_StaleSearchDiscarded ==
  [][\A i \in 1..MaxInFlight, hits \in SearchResponses :
       (/\ SearchResponse(i, "ok", hits)
        /\ searchReqs[i].kind = "typeahead"
        /\ ~searchReqs[i].latest
        /\ \A k \in 1..Len(searchReqs) : ~searchReqs[k].latest)
       => playerResults' = playerResults]_vars

\* C3: once the query is empty or whitespace-only and the search slot has
\* been reset (status idle, no results), no step repopulates the results
\* (a request for a new query would first leave the idle status).
C3_ResetNotRepopulated ==
  [][(Trim(playerQuery) = <<>> /\ playerSearchStatus = "idle" /\ playerResults = <<>>)
       => playerResults' = <<>>]_vars

\* C4: a category change leaves the page limit at the base page size and
\* "more available" true, and every leaderboard fetch it issues carries the
\* base page size.
C4_CategoryChangeFetchesBasePage ==
  [][\A v \in LeaderTab :
       SetLeaderTab(v) =>
         /\ leadersLimit' = PAGE_SIZE
         /\ canLoadMore'
         /\ \A k \in (Len(leadersReqs) + 1)..Len(leadersReqs') :
              leadersReqs'[k].limit = PAGE_SIZE]_vars

\* C5: "Load more" can be clicked only when "more available" is true and no
\* leaderboard fetch is in flight.
C5_LoadMoreDisabledWhileFetching ==
  LoadMoreEnabled => canLoadMore /\ leadersReqs = <<>>

\* C6: a successful leaderboard response replaces the committed list by the
\* returned rows and sets "more available" to (returned count >= requested
\* limit).
C6_SuccessReplacesList ==
  [][\A i \in 1..MaxInFlight, n \in AllRowCounts :
       LeadersResponse(i, "ok", n) =>
         /\ leaders' = TopRows(leadersReqs[i].cat, n)
         /\ canLoadMore' = (n >= leadersReqs[i].limit)
         /\ leadersStatus' = "ok"]_vars

\* C6 witness: 7 rows were committed for a request with limit 20, and "more
\* available" is false.
C6_Witness ==
  /\ leadersStatus = "ok"
  /\ leadersReqs = <<>>
  /\ Len(leaders) = 7
  /\ leadersLimit = 2 * PAGE_SIZE
  /\ ~canLoadMore

\* the slots other than the given one
OtherThanLeaders == <<tabVars, searchVars, playerVars, standingsVars>>
OtherThanSearch == <<tabVars, leaderVars, playerVars, standingsVars>>
OtherThanStats == <<tabVars, leaderVars, searchVars, standingsVars>>
OtherThanStandings == <<tabVars, leaderVars, searchVars, playerVars>>

FailureKinds == {"non2xx", "exception"}

\* C7: a failed fetch (non-2xx status, network or parse exception) sets its
\* slot's status to error, leaves the slot's committed data unchanged and
\* changes no other slot.
C7_FailureKeepsLastGood ==
  [][\A kind \in FailureKinds, i \in 1..MaxInFlight :
       /\ LeadersResponse(i, kind, 0) =>
            leadersStatus' = "error" /\ leaders' = leaders /\ UNCHANGED OtherThanLeaders
       /\ SearchResponse(i, kind, <<>>) =>
            /\ playerSearchStatus' = "error"
            /\ playerResults' = playerResults
            /\ UNCHANGED OtherThanSearch
       /\ StatsResponse(i, kind) =>
            /\ playerStatsStatus' = "error"
            /\ playerStats' = playerStats
            /\ UNCHANGED OtherThanStats
       /\ StandingsResponse(kind, <<>>) =>
            stStatus' = "error" /\ teams' = teams /\ UNCHANGED OtherThanStandings]_vars

\* C8: a non-2xx answer and an exception both end in the error status of
\* the slot, and nothing of the answer is committed.
C8_FailureSetsError ==
  [][\A i \in 1..MaxInFlight :
       /\ \A kind \in FailureKinds :
            /\ LeadersResponse(i, kind, 0) => leadersStatus' = "error"
            /\ SearchResponse(i, kind, <<>>) => playerSearchStatus' = "error"
            /\ StatsResponse(i, kind) => playerStatsStatus' = "error"
            /\ StandingsResponse(kind, <<>>) => stStatus' = "error"
       /\ StatsResponse(i, "non2xx") => playerStats' # ErrBody]_vars

\* C9 as claimed: the committed list never has more rows than the current
\* page limit.
C9_RowsWithinCurrentLimit == Len(leaders) <= leadersLimit

\* C9 as amended: every successful response commits a list with at most as
\* many rows as the limit carried by the request it answers.
C9_RowsWithinRequestedLimit ==
  [][\A i \in 1..MaxInFlight, n \in AllRowCounts :
       LeadersResponse(i, "ok", n) => Len(leaders') <= leadersReqs[i].limit]_vars

\* C9 witness: a list of two pages, committed for a request with limit 20,
\* is held while the page limit has been reset to the base page size.
C9_Witness ==
  /\ leadersStatus = "ok"
  /\ Len(leaders) = 2 * PAGE_SIZE
  /\ leadersLimit = PAGE_SIZE

\* C10: a handler's call requestTabChange(next) leaves the active tab, the
\* pending slot, the transition flag and the timers unchanged when next is
\* the active tab or a transition is in flight; otherwise it records next
\* as pending, enters Transitioning and registers the two timers.
C10_RequestChange ==
  [][\A next \in AppTab :
       (TabClick(next) \/ (next = "player" /\ \E i \in 1..NumPlayers : JumpToPlayer(i))) =>
         IF next = tab \/ isTabTransitioning
           THEN UNCHANGED tabVars
           ELSE /\ pendingTabRef' = next
                /\ isTabTransitioning'
                /\ tab' = tab
                /\ tabTimers' = tabTimers \o <<"swap", "unlock">>]_vars

\* C10 witness: a deep link was issued from the leaderboard while the
\* machine was Transitioning to the home tab, and the pending slot still
\* holds the home tab.
C10_Witness ==
  /\ tab = "leaders"
  /\ isTabTransitioning
  /\ pendingTabRef = "home"
  /\ \E k \in 1..Len(searchReqs) : searchReqs[k].kind = "deeplink" /\ searchReqs[k].locked

\* C11: of two calls of requestTabChange before the unlock, the first wins:
\* one transition registers one swap and one unlock timer; while it runs
\* the pending target stays the first call's target, whatever is requested
\* meanwhile; and the active tab changes only to that target, only once.
C11_FirstTargetWins ==
  /\ [](IF isTabTransitioning
          THEN /\ pendingTabRef \in AppTab
               /\ tabTimers \in {<<"swap", "unlock">>, <<"unlock">>}
          ELSE tabTimers = <<>> /\ pendingTabRef = NoTab)
  /\ [][isTabTransitioning =>
          /\ isTabTransitioning' => pendingTabRef' = pendingTabRef
          /\ tab' # tab => tab' = pendingTabRef /\ tabTimers' = <<"unlock">>]_vars

\* C11 witness: a leaderboard row was clicked while the transition to the
\* home tab ran; the swap went to the home tab and the deep link's target
\* was never recorded.
C11_Witness ==
  /\ tab = "home"
  /\ isTabTransitioning
  /\ pendingTabRef = "home"
  /\ tabTimers = <<"unlock">>
  /\ \E k \in 1..Len(searchReqs) : searchReqs[k].kind = "deeplink" /\ searchReqs[k].locked

\* C12: the answer to the search of a deep link for player id P either
\* leaves the selection as it is or selects a hit whose id is P, whatever
\* hits the answer carries.
C12_DeepLinkSelectsOnlyP ==
  [][\A i \in 1..Len(searchReqs) :
       (/\ searchReqs[i].kind = "deeplink"
        /\ searchReqs' = RemoveAt(searchReqs, i)
        /\ selectedPlayer' # selectedPlayer)
       => selectedPlayer'.nba_player_id = searchReqs[i].playerId]_vars

\* C12 witness: the deep link for player 2 has selected player 2 and asked
\* for the game log of player 2.
C12_Witness ==
  /\ tab = "player"
  /\ selectedPlayer \in {Hit(2), Alias(2)}
  /\ playerQuery = <<>>
  /\ playerSearchStatus = "ok"
  /\ statsReqs = <<[nba_player_id |-> 2, n |-> DEFAULT_LAST_N]>>

\* C13: every deep link leads to the player tab.  The active tab changes
\* only when a swap timer fires, and then to the pending target (C11), so
\* the claim is that every click on a leaderboard row leaves a transition
\* to the player tab pending with its swap timer still to fire, whatever
\* the transition state was before the click: Idle, or Transitioning with
\* the swap to another tab still to come.
C13_DeepLinkReachesPlayer ==
  [][\A i \in 1..NumPlayers :
       (JumpToPlayer(i) /\ (isTabTransitioning => Head(tabTimers) = "swap")) =>
         /\ isTabTransitioning'
         /\ pendingTabRef' = "player"
         /\ tabTimers' # <<>> /\ Head(tabTimers') = "swap"]_vars

\* a search request is issued in this step; it is the last in flight
SearchIssued == Len(searchReqs') = Len(searchReqs) + 1

\* the step is the firing of the debounce timer that the last change of
\* the query text armed, and leaves the query text as it is
DebouncedStep ==
  /\ searchTimer.pending
  /\ searchTimer.q = playerQuery
  /\ ~searchTimer'.pending
  /\ playerQuery' = playerQuery
  /\ searchReqs'[Len(searchReqs')].q = Trim(playerQuery)

\* a pending debounce timer is the one armed by the last change of the
\* query text: every change cancels the timer pending before it
TimerOfLastChange == searchTimer.pending => searchTimer.q = playerQuery

\* C14 as claimed: every search request is issued by the debounce timer
\* of the last change of the query text, for the final query value.
C14_EveryRequestDebounced ==
  /\ []TimerOfLastChange
  /\ [][SearchIssued => DebouncedStep]_vars

\* C14 as amended: every typeahead search request is issued by the debounce
\* timer of the last change of the query text, for the final query value;
\* the search of a deep link is issued in the step that sets the query text.
C14_TypeaheadDebounced ==
  /\ []TimerOfLastChange
  /\ [][SearchIssued =>
          IF searchReqs'[Len(searchReqs')].kind = "typeahead"
            THEN DebouncedStep
            ELSE \E i \in 1..NumPlayers : JumpToPlayer(i)]_vars

\* C14 witness: the typeahead request for the query "a" is in flight next
\* to the search of a deep link, and no timer is pending.
C14_Witness ==
  /\ playerQuery = <<"a">>
  /\ ~searchTimer.pending
  /\ \E k \in 1..Len(searchReqs) : searchReqs[k].kind = "typeahead" /\ searchReqs[k].q = <<"a">>
  /\ \E k \in 1..Len(searchReqs) : searchReqs[k].kind = "deeplink"

\* C15: the step in which the query text becomes empty or whitespace-only
\* issues no search request and resets the search slot (no results,
\* status idle) in that same step.
C15_EmptyQueryResetsAtOnce ==
  [][(playerQuery' # playerQuery /\ Trim(playerQuery') = <<>>) =>
       /\ Len(searchReqs') <= Len(searchReqs)
       /\ playerResults' = <<>>
       /\ playerSearchStatus' = "idle"]_vars

\* C16: selecting a search hit sets the selection to that hit, empties the
\* query text and the result list and issues exactly one game-log request,
\* for the hit's id and the default window; a successful game-log response
\* commits the averages and the games of that one response.
C16_SelectHitFetchesDefaultWindow ==
  [][/\ \A i \in 1..NumPlayers :
          SelectHit(i) =>
            /\ selectedPlayer' = playerResults[i]
            /\ playerQuery' = <<>>
            /\ playerResults' = <<>>
            /\ statsReqs' = Append(statsReqs, [nba_player_id |-> playerResults[i].nba_player_id,
                                               n |-> DEFAULT_LAST_N])
     /\ \A i \in 1..MaxInFlight :
          StatsResponse(i, "ok") =>
            /\ playerStats'.kind = "data"
            /\ playerStats'.averages = statsReqs[i]
            /\ playerStats'.games = statsReqs[i]]_vars

\* C16 witness: player 1 was selected from the results and the default
\* window of player 1 is committed.
C16_Witness ==
  /\ selectedPlayer = Hit(1)
  /\ ~showAllGames
  /\ playerQuery = <<>>
  /\ playerResults = <<>>
  /\ statsReqs = <<>>
  /\ playerStatsStatus = "ok"
  /\ playerStats = StatsOf([nba_player_id |-> 1, n |-> DEFAULT_LAST_N])

\* C17: the toggle flips the flag and re-fetches the selected player's game
\* log, with the sentinel window when the flag turns on and the default
\* window when it turns off; and once no game-log request is in flight the
\* flag is true exactly when the committed log of the selected player was
\* fetched with the sentinel window.
C17_FlagAgreesWithLog ==
  /\ [][ToggleShowAll =>
          /\ showAllGames' = ~showAllGames
          /\ statsReqs' = Append(statsReqs,
                [nba_player_id |-> selectedPlayer.nba_player_id,
                 n |-> IF showAllGames' THEN ALL_GAMES_N ELSE DEFAULT_LAST_N])]_vars
  /\ []((/\ statsReqs = <<>>
         /\ selectedPlayer # NoPlayer
         /\ playerStatsStatus = "ok"
         /\ playerStats.kind = "data"
         /\ playerStats.nba_player_id = selectedPlayer.nba_player_id)
        => (showAllGames <=> playerStats.n = ALL_GAMES_N))

\* the two conference labels, lower-cased
ConferenceLabels == {toLowerCase(EasternConference), toLowerCase(WesternConference)}

\* the responses in which every team's label is "Eastern Conference" or
\* "Western Conference" in some letter case
LabelledResponses ==
  {list \in StandingsResponses :
     \A i \in 1..Len(list) : toLowerCase(list[i].conference) \in ConferenceLabels}

\* how often team t occurs in the list l
Occurrences(l, t) == Cardinality({i \in 1..Len(l) : l[i] = t})

\* ascending playoff rank, descending win percentage among equal ranks
RankOrdered(l) ==
  \A i \in 1..(Len(l) - 1) :
    \/ l[i].playoff_rank < l[i + 1].playoff_rank
    \/ l[i].playoff_rank = l[i + 1].playoff_rank /\ l[i].win_pct >= l[i + 1].win_pct

\* C18: when a standings response whose teams all carry one of the two
\* conference labels is committed, every team of the response is in exactly
\* one of the derived lists east and west, and each of the two lists is
\* ordered by ascending playoff rank, ties by descending win percentage.
C18_StandingsPartition ==
  [][\A list \in LabelledResponses :
       StandingsResponse("ok", list) =>
         /\ \A i \in 1..Len(list) :
              Occurrences(east(teams'), list[i]) + Occurrences(west(teams'), list[i]) = 1
         /\ Len(east(teams')) + Len(west(teams')) = Len(list)
         /\ RankOrdered(east(teams'))
         /\ RankOrdered(west(teams'))]_vars

\* C18 witness: two eastern teams of equal rank and one western team are
\* shown, the eastern team with the higher win percentage first.
C18_Witness ==
  /\ stStatus = "ok"
  /\ Len(east(teams)) = 2
  /\ Len(west(teams)) = 1
  /\ east(teams)[1].playoff_rank = east(teams)[2].playoff_rank
  /\ east(teams)[1].win_pct > east(teams)[2].win_pct

\* C19: while the leaderboard page shows a failed fetch (status error) and
\* more rows are available, the load-more action is available.
C19_LoadMoreInError ==
  (tab = "leaders" /\ leadersStatus = "error" /\ canLoadMore) => LoadMoreEnabled

\* a request is put into the queue q of fetches in flight
Issued(q) == q' # q /\ Len(q') >= Len(q)

\* a fetch of some slot fails
FailureStep ==
  \E kind \in FailureKinds, i \in 1..MaxInFlight :
    \/ LeadersResponse(i, kind, 0)
    \/ SearchResponse(i, kind, <<>>)
    \/ StatsResponse(i, kind)
    \/ StandingsResponse(kind, <<>>)

\* the search of a deep link is answered and its match is selected
DeepLinkMatched ==
  \E i \in 1..MaxInFlight, hits \in SearchResponses :
    /\ SearchResponse(i, "ok", hits)
    /\ searchReqs[i].kind = "deeplink"
    /\ selectedPlayer' = FindExact(hits, searchReqs[i].playerId)

C21_LoadMoreOnePage ==
  [][LoadMore =>
       /\ leadersLimit' = leadersLimit + PAGE_SIZE
       /\ leaderTab' = leaderTab
       /\ leadersReqs' = Append(leadersReqs, LeadersReq(leaderTab, leadersLimit + PAGE_SIZE))]_vars

\* C21 witness: after "Load more" on the first page the one fetch in flight
\* asks for two pages of the current category.
C21_Witness ==
  /\ tab = "leaders"
  /\ leadersLimit = 2 * PAGE_SIZE
  /\ leadersStatus = "loading"
  /\ Len(leaders) = PAGE_SIZE
  /\ leadersReqs = <<LeadersReq(leaderTab, 2 * PAGE_SIZE)>>

\* C22: in every tab transition the swap comes no later than the unlock.
\* The machine is never Idle while a timer of a transition is pending or the
\* pending slot is filled; the swap timer always finds the pending slot
\* filled and makes it the active tab; and when the unlock timer fires the
\* active tab is already the pending one.
C22_SwapBeforeUnlock ==
  /\ [](~isTabTransitioning => tabTimers = <<>> /\ pendingTabRef = NoTab)
  /\ [][TabSwap => pendingTabRef \in AppTab /\ tab' = pendingTabRef]_vars
  /\ [][TabUnlock => tab = pendingTabRef /\ tabTimers' = <<>>]_vars

\* C22 witness: the swap to the standings tab has happened and the unlock
\* is still to come.
C22_Witness ==
  /\ isTabTransitioning
  /\ tab = "standings"
  /\ pendingTabRef = "standings"
  /\ tabTimers = <<"unlock">>

\* C23: every accepted tab change terminates.  A transition towards a tab
\* leads to the Idle state with the pending slot empty, no timer left and
\* that tab active, whatever the user does meanwhile; the timers pending
\* are always the swap and the unlock of one transition, or its unlock.
C23_TransitionTerminates ==
  /\ \A t \in AppTab :
       (isTabTransitioning /\ pendingTabRef = t)
         ~> (~isTabTransitioning /\ pendingTabRef = NoTab /\ tabTimers = <<>> /\ tab = t)
  /\ [](tabTimers \in {<<>>, <<"swap", "unlock">>, <<"unlock">>})

\* C23 witness: the transition to the home tab has completed although a
\* leaderboard row was clicked while it ran.
C23_Witness ==
  /\ tab = "home"
  /\ ~isTabTransitioning
  /\ pendingTabRef = NoTab
  /\ tabTimers = <<>>
  /\ \E k \in 1..Len(searchReqs) : searchReqs[k].kind = "deeplink" /\ searchReqs[k].locked

\* C24: the pending timers are cancelled on unmount and on a superseding
\* re-trigger.  The debounce timer pending is the one of the last change of
\* the query; once App is unmounted no timer is pending and no timer
\* callback runs.
C24_TimersCancelled ==
  /\ [](searchTimer.pending => searchTimer.q = playerQuery)
  /\ [](~mounted => tabTimers = <<>> /\ ~searchTimer.pending)
  /\ [][~mounted => ~(TabSwap \/ TabUnlock \/ DebounceFire)]_vars

\* C25: when the search of a deep link for player id P is answered without
\* a hit of id P, the response commits no selection, issues no game-log
\* request and surfaces no error: selection, stats, query and results are
\* left as they are and the search status becomes ok.
C25_NoMatchNoSelection ==
  [][\A i \in 1..Len(searchReqs) :
       (searchReqs[i].kind = "deeplink" /\ searchReqs' = RemoveAt(searchReqs, i)) =>
         \A hits \in SearchResponses :
           (/\ \A k \in 1..Len(hits) : hits[k].nba_player_id # searchReqs[i].playerId
            /\ SearchResponse(i, "ok", hits)) =>
             /\ UNCHANGED <<selectedPlayer, playerStats, playerStatsStatus, showAllGames, statsReqs>>
             /\ UNCHANGED <<playerQuery, playerResults>>
             /\ playerSearchStatus' = "ok"]_vars

\* C25 witness: the deep link for player 1 has been answered without a
\* match; the player page shows the pre-filled name, no player and no error.
C25_Witness ==
  /\ tab = "player"
  /\ playerQuery = PlayerName(1)
  /\ selectedPlayer = NoPlayer
  /\ playerStats = NoStats
  /\ playerSearchStatus = "ok"
  /\ searchReqs = <<>>
  /\ statsReqs = <<>>

\* the list a holds the elements of the list b, each as often
Permutation(a, b) ==
  /\ Len(a) = Len(b)
  /\ \A i \in 1..Len(b) : Occurrences(a, b[i]) = Occurrences(b, b[i])

\* the order of sortStandings
StandingsOrdered(l) == \A i \in 1..(Len(l) - 1) : CompareTeams(l[i], l[i + 1]) <= 0

BucketsEmpty == east(teams) = <<>> /\ west(teams) = <<>>

C27_LatestLeadersRequestWins ==
  (leadersReqs = <<>> /\ leadersStatus = "ok") =>
    /\ \A i \in 1..Len(leaders) : leaders[i].cat = leaderTab
    /\ Len(leaders) <= leadersLimit

\* C28: the response to a deep link that a later deep link has superseded
\* never replaces the later choice: once the search of the later deep link
\* has been answered, the late response to the earlier one leaves the
\* selected player as it is.  (Where every search request is a deep link's,
\* a request that is not the latest was followed by another deep link.)
C28_LateDeepLinkDiscarded ==
  [][\A i \in 1..Len(searchReqs) :
       (/\ searchReqs[i].kind = "deeplink"
        /\ searchReqs' = RemoveAt(searchReqs, i)
        /\ \A k \in 1..Len(searchReqs) :
             searchReqs[k].kind = "deeplink" /\ ~searchReqs[k].latest)
       => selectedPlayer' = selectedPlayer]_vars

\* how often the standings view shows team t: in its one table, or in the
\* east list and the west list together
ShownOccurrences(t) ==
  CASE StandingsView.kind = "table" -> Occurrences(StandingsView.list, t)
    [] StandingsView.kind = "split" ->
         Occurrences(StandingsView.east, t) + Occurrences(StandingsView.west, t)
    [] OTHER -> 0

\* C29: whatever the conference labels of the fetched teams are, while the
\* standings view shows a successful fetch every fetched team is displayed
\* in exactly one standings list: none is missing from the view and none is
\* in both the east and the west list.
C29_EveryTeamInOneList ==
  (tab = "standings" /\ stStatus = "ok") =>
    \A i \in 1..Len(teams) : ShownOccurrences(teams[i]) = 1

\* C30: when the leaders tab becomes the active tab again, every leaderboard
\* fetch issued for that visit carries the base page size, never the limit
\* reached during the previous visit; and after the fetch at mount a
\* leaderboard fetch is issued only by a step that leaves the leaders tab
\* active.
C30_ReentryFetchesBasePage ==
  [][/\ (tab # "leaders" /\ tab' = "leaders") =>
          /\ leadersLimit' = PAGE_SIZE
          /\ canLoadMore'
          /\ \A k \in (Len(leadersReqs) + 1)..Len(leadersReqs') :
               leadersReqs'[k].limit = PAGE_SIZE
     /\ Issued(leadersReqs) => tab' = "leaders"]_vars
====
